---- MODULE Spec2Model ----
(***************************************************************************)
(* A model of the gold price scraper (xinlang.py, gold_data_manager.py):   *)
(* the category registry, the two-pattern table extraction with its        *)
(* de-duplication and validation, the price-token recovery, the encoding   *)
(* probing of the fetcher and the aggregation of records into a report.    *)
(*                                                                         *)
(* Text is a sequence of one-character strings.  An HTML document is a     *)
(* sequence of lexical tokens: a cell <td ..>text</td> (kind "td"), a cell *)
(* <td ..><div ..>text</div></td> (kind "tddiv"), a run of whitespace      *)
(* (kind "ws") and any other markup (kind "tag").  Python's None is the    *)
(* empty sequence where a value is optional (a present value v is <<v>>).  *)
(***************************************************************************)
EXTENDS Integers, Sequences, FiniteSets, TLC

VARIABLES
    pc,            \* position of the call being modelled
    gold_type,     \* the category identifier handed to the operation
    rows,          \* the table rows the document was written from
    html_text,     \* parse_complete_gold_data: its html_text argument
    parsed,        \* parse_complete_gold_data: its outcome
    response,      \* fetch_gold_data_from_sina: what requests.get produced
    encoding_idx,  \* fetch_gold_data_from_sina: loop position in encodings
    tried,         \* fetch_gold_data_from_sina: encodings set so far, in order
    html_content,  \* fetch_gold_data_from_sina: the local html_content
    fetched,       \* fetch_gold_data_from_sina: its outcome
    gold_data,     \* analyze_gold_data: its argument
    analysis,      \* analyze_gold_data: its return value
    steps,         \* GoldDataManager.fetch_and_save_data: the calls made, in order
    returned,      \* GoldDataManager.fetch_and_save_data: its outcome
    saved,         \* GoldDataManager._save_data: its outcome
    store,         \* GoldDataManager.data_dir: the files written, by prefix
    summary,       \* GoldDataManager.get_all_data_summary: its return value
    comparison     \* GoldDataManager.compare_gold_types: its return value

vars == <<pc, gold_type, rows, html_text, parsed, response, encoding_idx,
          tried, html_content, fetched, gold_data, analysis,
          steps, returned, saved, store, summary, comparison>>

-----------------------------------------------------------------------------
(* Bounds of the model. *)

MaxRows == 2

MaxRecords == 4

FracDigits == 2

-----------------------------------------------------------------------------
(* Text helpers. *)

None == <<>>

Some(v) == <<v>>

Whitespace == {" ", "\n", "\t"}

Digits == {"0", "1", "2", "3", "4", "5", "6", "7", "8", "9"}

DigitValue(c) ==
    CASE c = "0" -> 0 [] c = "1" -> 1 [] c = "2" -> 2 [] c = "3" -> 3
      [] c = "4" -> 4 [] c = "5" -> 5 [] c = "6" -> 6 [] c = "7" -> 7
      [] c = "8" -> 8 [] c = "9" -> 9

RECURSIVE Pow10(_)
Pow10(n) == IF n = 0 THEN 1 ELSE 10 * Pow10(n - 1)

RECURSIVE LStrip(_)
LStrip(s) ==
    IF s # <<>> /\ Head(s) \in Whitespace THEN LStrip(Tail(s)) ELSE s

RECURSIVE RStrip(_)
RStrip(s) ==
    IF s # <<>> /\ s[Len(s)] \in Whitespace
    THEN RStrip(SubSeq(s, 1, Len(s) - 1))
    ELSE s

\* str.strip()
Strip(s) == RStrip(LStrip(s))

-----------------------------------------------------------------------------
(* The category registry. *)

GoldType == {"jewelry", "physical", "gold_bar"}

JEWELRY == "jewelry"

GOLD_CONFIGS ==
    [t \in GoldType |->
        CASE t = "jewelry" ->
               [name |-> "JewelryGold", filename_prefix |-> "jewelry_gold",
                url_params |-> [pp |-> 0, pz |-> 15]]
          [] t = "physical" ->
               [name |-> "PhysicalGold", filename_prefix |-> "physical_gold",
                url_params |-> [pp |-> 0, pz |-> 11]]
          [] t = "gold_bar" ->
               [name |-> "GoldBar", filename_prefix |-> "gold_bar",
                url_params |-> [pp |-> 0, pz |-> 15]]]

\* dict.get with a default: an identifier outside the registry gets the
\* jewelry configuration, no error is raised.
get_config(t) ==
    IF t \in DOMAIN GOLD_CONFIGS THEN GOLD_CONFIGS[t] ELSE GOLD_CONFIGS[JEWELRY]

\* gold_type.value: only a member of the enumeration has it.
HasValue(t) == t \in GoldType

-----------------------------------------------------------------------------
(* parse_complete_gold_data: the two structural patterns. *)

NumGroups == 8

MinGroups == 7

KeyFields == 4

Absent == [none |-> TRUE, text |-> <<>>]

Str(toks) == [none |-> FALSE, text |-> toks]

\* One attempt of a pattern at token i: NumGroups cells of the pattern's kind,
\* separated by nothing but whitespace (\s*).  acc holds the groups captured so
\* far; the result names the token after the match.
RECURSIVE Collect(_, _, _, _)
Collect(toks, i, kind, acc) ==
    IF Len(acc) = NumGroups THEN [ok |-> TRUE, groups |-> acc, next |-> i]
    ELSE IF i > Len(toks) THEN [ok |-> FALSE, groups |-> <<>>, next |-> i]
    ELSE IF toks[i].kind = kind
         THEN Collect(toks, i + 1, kind, Append(acc, toks[i].text))
    ELSE IF toks[i].kind = "ws" /\ acc # <<>>
         THEN Collect(toks, i + 1, kind, acc)
    ELSE [ok |-> FALSE, groups |-> <<>>, next |-> i]

\* re.findall(pattern, html_text, re.DOTALL): the non-overlapping matches, left
\* to right; after a match the scan resumes behind it.
RECURSIVE Scan(_, _, _)
Scan(toks, i, kind) ==
    IF i > Len(toks) THEN <<>>
    ELSE LET m == Collect(toks, i, kind, <<>>)
         IN  IF m.ok THEN <<m.groups>> \o Scan(toks, m.next, kind)
             ELSE Scan(toks, i + 1, kind)

findall(kind, toks) == Scan(toks, 1, kind)

\* matches1 + matches2: every match of the bare pattern, then every match of
\* the div pattern.
Pooled(toks) == findall("td", toks) \o findall("tddiv", toks)

\* key = (match[0], match[1], match[2], match[3])
MatchKey(match) == SubSeq(match, 1, KeyFields)

\* The first loop: keep the first match of every key.
RECURSIVE Dedup(_, _, _, _)
Dedup(ms, i, seen, acc) ==
    IF i > Len(ms) THEN acc
    ELSE IF Len(ms[i]) >= MinGroups /\ MatchKey(ms[i]) \notin seen
         THEN Dedup(ms, i + 1, seen \cup {MatchKey(ms[i])}, Append(acc, ms[i]))
    ELSE Dedup(ms, i + 1, seen, acc)

all_matches(toks) == Dedup(Pooled(toks), 1, {}, <<>>)

-----------------------------------------------------------------------------
(* parse_complete_gold_data: validation, price recovery, the record. *)

RECURSIVE DigitsValue(_)
DigitsValue(ds) ==
    IF ds = <<>> THEN 0
    ELSE 10 * DigitsValue(SubSeq(ds, 1, Len(ds) - 1)) + DigitValue(ds[Len(ds)])

\* The least index of a digit of s, 0 when s has none: where re.search starts
\* its match of \d+.
RECURSIVE FirstDigitFrom(_, _)
FirstDigitFrom(s, i) ==
    IF i > Len(s) THEN 0
    ELSE IF s[i] \in Digits THEN i
    ELSE FirstDigitFrom(s, i + 1)

\* The index of the last digit of the greedy run \d+ (or \d*) that starts at i;
\* i - 1 when s[i] is no digit.
RECURSIVE RunEnd(_, _)
RunEnd(s, i) ==
    IF i <= Len(s) /\ s[i] \in Digits THEN RunEnd(s, i + 1) ELSE i - 1

PriceSearchNoDot(s) ==
    LET start == FirstDigitFrom(s, 1)
    IN  IF start = 0 THEN None ELSE Some(SubSeq(s, start, RunEnd(s, start)))

\* re.search(r"(\d+\.?\d*)", price): group(1), None when nothing matches.
PriceSearch(s) ==
    LET start == FirstDigitFrom(s, 1)
        e1    == RunEnd(s, start)
        e2    == IF e1 + 1 <= Len(s) /\ s[e1 + 1] = "." THEN e1 + 1 ELSE e1
        e3    == IF e2 > e1 THEN RunEnd(s, e2 + 1) ELSE e1
    IN  IF start = 0 THEN None ELSE Some(SubSeq(s, start, e3))

\* float(token) for a token digits[.digits], in units of 10^-FracDigits
\* (823.00 is 82300 when FracDigits = 2); digits beyond FracDigits are cut.
Float(tok) ==
    LET dot  == CHOOSE k \in 1..(Len(tok) + 1) :
                    /\ k = Len(tok) + 1 \/ tok[k] = "."
                    /\ \A j \in 1..(k - 1) : tok[j] # "."
        int  == SubSeq(tok, 1, dot - 1)
        frac == SubSeq(tok, dot + 1, Len(tok))
        kept == IF Len(frac) > FracDigits THEN SubSeq(frac, 1, FracDigits) ELSE frac
    IN  DigitsValue(int) * Pow10(FracDigits)
          + DigitsValue(kept) * Pow10(FracDigits - Len(kept))

price_value_of(price) ==
    LET price_match == PriceSearch(price)
    IN  IF price_match = None THEN None ELSE Some(Float(price_match[1]))

\* The match after .strip() of each of its eight fields.
Cleaned(match) == [k \in 1..NumGroups |-> Strip(match[k])]

IsValidNoUnit(c) ==
    c[1] # <<>> /\ c[2] # <<>> /\ c[3] # <<>> /\ c[4] # <<>>

\* if date and brand and product and price and unit
IsValid(c) ==
    c[1] # <<>> /\ c[2] # <<>> /\ c[3] # <<>> /\ c[4] # <<>> /\ c[5] # <<>>

SOURCE == "sina"

\* The dict appended to gold_data (the timestamp of parsing is left out: no
\* operation reads it).
Record(c, t) ==
    [date |-> c[1], brand |-> c[2], product |-> c[3], price |-> c[4],
     price_value |-> price_value_of(c[4]), unit |-> c[5], purity |-> c[6],
     craft_fee |-> c[7], trend |-> c[8],
     gold_type_name |-> get_config(t).name,
     gold_type_code |-> IF HasValue(t) THEN t ELSE "",
     source |-> SOURCE]

\* The second loop, over all_matches.
RECURSIVE BuildRecords(_, _, _)
BuildRecords(ms, i, t) ==
    IF i > Len(ms) THEN <<>>
    ELSE LET c == Cleaned(ms[i])
         IN  IF Len(ms[i]) >= MinGroups /\ IsValid(c)
             THEN <<Record(c, t)>> \o BuildRecords(ms, i + 1, t)
             ELSE BuildRecords(ms, i + 1, t)

Return(v) == [kind |-> "return", value |-> v, exc |-> ""]

Raise(e) == [kind |-> "raise", value |-> <<>>, exc |-> e]

\* The outcome of parse_complete_gold_data(html_text, gold_type).  re.findall
\* raises TypeError on None; gold_type.value raises AttributeError, when the
\* first record is built, for an identifier that is no GoldType member.
parse_complete_gold_data(html, t) ==
    IF html.none THEN Raise("TypeError")
    ELSE LET recs == BuildRecords(all_matches(html.text), 1, t)
         IN  IF recs # <<>> /\ ~HasValue(t) THEN Raise("AttributeError")
             ELSE Return(recs)

-----------------------------------------------------------------------------
(* The documents the extraction is run on. *)

Cell(kind, text) == [kind |-> kind, text |-> text]

Ws == [kind |-> "ws", text |-> <<"\n">>]

Tag(name) == [kind |-> "tag", text |-> <<name>>]

\* 2025-09-17 | brand | product | 823.00 | unit | 999 | fee | trend
BaseCells ==
    << <<"1", "7">>, <<"A">>, <<"p">>, <<"8", "2", "3", ".", "0", "0">>,
       <<"g">>, <<"9", "9", "9">>, <<"n">>, <<"+">> >>

\* What a row may hold in a field instead of the base text.
Alternatives ==
    << { <<" ", "1", "7">>, <<"1", "8">>, <<>> },
       { <<" ">> },
       { <<>> },
       { <<"n", "/", "a">>, <<"0">>, <<"x", "1", ".", "5", ".", "2">>,
         <<"1", "2", ".">>, <<" ">> },
       { <<"\n">> },
       { <<"9", "9", "0">>, <<>> },
       { <<>> },
       { <<>> } >>

Varied(fields) ==
    {BaseCells} \cup
    { [BaseCells EXCEPT ![k] = v] : <<k, v>> \in
        UNION { {k} \X Alternatives[k] : k \in fields } }

CellTexts == Varied(1..NumGroups)

\* Rows of bare cells vary in every field; rows of div-wrapped cells vary in
\* the date and in the purity.
WellFormedRows ==
    { [k \in 1..NumGroups |-> Cell("td", c[k])] : c \in CellTexts } \cup
    { [k \in 1..NumGroups |-> Cell("tddiv", c[k])] : c \in Varied({1, 6}) }

\* A row one cell short, and a row whose cells are not all of one shape.
MalformedRows ==
    { [k \in 1..(NumGroups - 1) |-> Cell("td", BaseCells[k])],
      [k \in 1..NumGroups |->
          Cell(IF k = 3 THEN "tddiv" ELSE "td", BaseCells[k])] }

RowSet == WellFormedRows \cup MalformedRows

\* <tr> cell \n cell ... cell </tr> \n
RECURSIVE Joined(_)
Joined(cells) ==
    IF Len(cells) <= 1 THEN cells
    ELSE <<Head(cells), Ws>> \o Joined(Tail(cells))

RenderRow(row) == <<Tag("<tr>")>> \o Joined(row) \o <<Tag("</tr>"), Ws>>

RECURSIVE Document(_)
Document(rs) ==
    IF rs = <<>> THEN <<>> ELSE RenderRow(Head(rs)) \o Document(Tail(rs))

Documents == UNION { [1..n -> RowSet] : n \in 0..MaxRows }

\* Category identifiers a caller may pass: the member whose configuration is
\* also the fallback, a member with a configuration of its own, and a string
\* that is no member.
GoldTypeInputs == {JEWELRY, "gold_bar", "silver"}

-----------------------------------------------------------------------------
(* Values of the variables an operation does not use. *)

NoResponse == [ok |-> FALSE, decoded |-> <<>>]

Idle == <<>>

ParseIdle ==
    /\ rows = <<>>
    /\ html_text = Absent
    /\ parsed = Idle

FetchIdle ==
    /\ response = NoResponse
    /\ encoding_idx = 0
    /\ tried = <<>>
    /\ html_content = None
    /\ fetched = Idle

AnalyzeIdle ==
    /\ gold_data = <<>>
    /\ analysis = Idle

\* No file has been written under a prefix.
NoFiles ==
    [json |-> None, json_ts |-> None, analysis |-> None, analysis_ts |-> None,
     xlsx |-> None]

Prefixes == {GOLD_CONFIGS[t].filename_prefix : t \in GoldType}

EmptyStore == [p \in Prefixes |-> NoFiles]

ManagerIdle ==
    /\ steps = <<>>
    /\ returned = Idle
    /\ saved = Idle
    /\ store = EmptyStore
    /\ summary = Idle
    /\ comparison = Idle

managerVars == <<steps, returned, saved, store, summary, comparison>>

parseVars == <<rows, html_text, parsed>>

fetchVars == <<response, encoding_idx, tried, html_content, fetched>>

analyzeVars == <<gold_data, analysis>>

-----------------------------------------------------------------------------
(* Extraction: one call of parse_complete_gold_data. *)

InitParse ==
    /\ pc = "call"
    /\ gold_type \in GoldTypeInputs
    /\ \/ /\ rows \in Documents
          /\ html_text = Str(Document(rows))
       \/ /\ rows = <<>>
          /\ html_text = Absent
    /\ parsed = Idle
    /\ FetchIdle
    /\ AnalyzeIdle
    /\ ManagerIdle

Parse ==
    /\ pc = "call"
    /\ parsed' = parse_complete_gold_data(html_text, gold_type)
    /\ pc' = "done"
    /\ UNCHANGED <<gold_type, rows, html_text, fetchVars, analyzeVars, managerVars>>

NextParse == Parse

SpecParse == InitParse /\ [][NextParse]_vars

-----------------------------------------------------------------------------
(* Properties of the extraction. *)

\* The text has a character that is not whitespace.
HasInk(s) == \E i \in 1..Len(s) : s[i] \notin Whitespace

\* The text between its first and its last non-whitespace character.
Trimmed(s) ==
    IF ~HasInk(s) THEN <<>>
    ELSE LET ink == {i \in 1..Len(s) : s[i] \notin Whitespace}
             lo  == CHOOSE i \in ink : \A j \in ink : i <= j
             hi  == CHOOSE i \in ink : \A j \in ink : j <= i
         IN  SubSeq(s, lo, hi)

HasDigit(s) == \E i \in 1..Len(s) : s[i] \in Digits

\* A row of NumGroups cells, all of one supported shape, whose date, brand,
\* product, price and unit are not blank.
WellFormedRow(row) ==
    /\ Len(row) = NumGroups
    /\ \E kind \in {"td", "tddiv"} : \A k \in 1..NumGroups : row[k].kind = kind
    /\ \A k \in 1..5 : HasInk(row[k].text)

RowKey(row) == [k \in 1..KeyFields |-> Trimmed(row[k].text)]

RecordKey(r) == <<r.date, r.brand, r.product, r.price>>

\* The record holds the eight texts, trimmed, in the order of the fields.
HoldsTexts(r, texts) ==
    /\ r.date = Trimmed(texts[1])
    /\ r.brand = Trimmed(texts[2])
    /\ r.product = Trimmed(texts[3])
    /\ r.price = Trimmed(texts[4])
    /\ r.unit = Trimmed(texts[5])
    /\ r.purity = Trimmed(texts[6])
    /\ r.craft_fee = Trimmed(texts[7])
    /\ r.trend = Trimmed(texts[8])

Returned == pc = "done" /\ parsed # Idle /\ parsed.kind = "return"

\* C1: a document of N well-formed rows of either shape, shapes possibly
\* mixed, with pairwise distinct (date, brand, product, price) keys, parsed
\* for a registered category, yields exactly N records, the i-th record being
\* that of the i-th row of the document.
C1_DocumentOrder ==
    ( /\ pc = "done"
      /\ ~html_text.none
      /\ gold_type \in GoldType
      /\ \A i \in 1..Len(rows) : WellFormedRow(rows[i])
      /\ \A i, j \in 1..Len(rows) : i # j => RowKey(rows[i]) # RowKey(rows[j]) )
    => /\ parsed.kind = "return"
       /\ Len(parsed.value) = Len(rows)
       /\ \A i \in 1..Len(rows) :
             HoldsTexts(parsed.value[i], [k \in 1..NumGroups |-> rows[i][k].text])

\* C2: no two returned records agree on (date, brand, product, price) as
\* stored, and a record carries the remaining fields of the first candidate
\* row that has its key.
C2_NoDuplicateKeys ==
    Returned =>
      LET recs  == parsed.value
          cands == Pooled(html_text.text)
          KeyOf(m) == [k \in 1..KeyFields |-> Trimmed(m[k])]
      IN  /\ \A i, j \in 1..Len(recs) :
                i # j => RecordKey(recs[i]) # RecordKey(recs[j])
          /\ \A i \in 1..Len(recs) :
                \E m \in 1..Len(cands) :
                    /\ KeyOf(cands[m]) = RecordKey(recs[i])
                    /\ \A n \in 1..(m - 1) : KeyOf(cands[n]) # RecordKey(recs[i])
                    /\ HoldsTexts(recs[i], cands[m])

\* C3: every returned record has date, brand, product, price and unit not
\* empty and trimmed; the records are exactly as many as the candidate rows
\* whose five required fields are not blank, so a row with a blank required
\* field gives no record and a blank purity, craft fee or trend discards none.
C3_RequiredFields ==
    Returned =>
      LET recs  == parsed.value
          cands == all_matches(html_text.text)
      IN  /\ \A i \in 1..Len(recs) :
                \A f \in {recs[i].date, recs[i].brand, recs[i].product,
                           recs[i].price, recs[i].unit} :
                    f # <<>> /\ f = Trimmed(f)
          /\ Len(recs) =
                Cardinality({i \in 1..Len(cands) :
                                \A k \in 1..5 : HasInk(cands[i][k])})

\* C3 happens: of two candidate rows one with a blank required field was
\* dropped, and the record of the other has an empty purity.
C3_Witness ==
    /\ Returned
    /\ Len(all_matches(html_text.text)) = 2
    /\ Len(parsed.value) = 1
    /\ parsed.value[1].purity = <<>>

\* s[i..j] is the first numeric token of s: it starts at the first digit of
\* s, is a run of digits, or a run of digits, one point and a (possibly empty)
\* run of digits, and cannot be extended.
IsFirstNumericToken(s, i, j) ==
    /\ 1 <= i /\ i <= j /\ j <= Len(s)
    /\ s[i] \in Digits
    /\ \A k \in 1..(i - 1) : s[k] \notin Digits
    /\ \A k \in i..j : s[k] \in Digits \cup {"."}
    /\ Cardinality({k \in i..j : s[k] = "."}) <= 1
    /\ \A k \in i..j : s[k] = "." => \A l \in i..k : l = k \/ s[l] \in Digits
    /\ \/ j = Len(s)
       \/ /\ s[j + 1] \notin Digits
          /\ s[j + 1] = "." => \E k \in i..j : s[k] = "."

\* The sum of the digits of s[i..j], each weighted by its place relative to
\* the point at index p, in units of 10^-FracDigits.
RECURSIVE PlaceSum(_, _, _, _)
PlaceSum(s, i, j, p) ==
    IF j < i THEN 0
    ELSE PlaceSum(s, i, j - 1, p) +
         ( IF s[j] = "." THEN 0
           ELSE IF j < p THEN DigitValue(s[j]) * Pow10(p - 1 - j + FracDigits)
           ELSE IF j - p <= FracDigits
                THEN DigitValue(s[j]) * Pow10(FracDigits - (j - p))
           ELSE 0 )

\* The number the token s[i..j] denotes, in units of 10^-FracDigits.
Denoted(s, i, j) ==
    LET points == {k \in i..j : s[k] = "."}
    IN  PlaceSum(s, i, j, IF points = {} THEN j + 1 ELSE CHOOSE k \in points : TRUE)

\* C4: a record's price_value is absent exactly when its price has no digit,
\* and is otherwise the number denoted by the first numeric token of the
\* price (never zero by default); a valid candidate row whose price has no
\* digit still gives a record holding all its fields.
C4_PriceValue ==
    Returned =>
      LET recs  == parsed.value
          cands == all_matches(html_text.text)
      IN  /\ \A n \in 1..Len(recs) :
                LET s == recs[n].price
                IN  /\ recs[n].price_value = None <=> ~HasDigit(s)
                    /\ HasDigit(s) =>
                          \E i, j \in 1..Len(s) :
                              /\ IsFirstNumericToken(s, i, j)
                              /\ recs[n].price_value = Some(Denoted(s, i, j))
          /\ \A m \in 1..Len(cands) :
                ( /\ \A k \in 1..5 : HasInk(cands[m][k])
                  /\ ~HasDigit(cands[m][4]) )
                => \E n \in 1..Len(recs) :
                      /\ HoldsTexts(recs[n], cands[m])
                      /\ recs[n].price_value = None

\* C4 happens: one record without a price value beside one whose value, 1.5,
\* was recovered from the text x1.5.2.
C4_Witness ==
    /\ Returned
    /\ \E a, b \in 1..Len(parsed.value) :
          /\ parsed.value[a].price = <<"n", "/", "a">>
          /\ parsed.value[a].price_value = None
          /\ parsed.value[b].price = <<"x", "1", ".", "5", ".", "2">>
          /\ parsed.value[b].price_value = Some(15 * Pow10(FracDigits - 1))

\* C6: for every category identifier outside the registry the extraction
\* raises an error instead of returning a result, whatever the HTML, also
\* HTML without a matching row.
C6_UnknownCategoryRaises ==
    (pc = "done" /\ parsed # Idle /\ gold_type \notin GoldType)
    => parsed.kind = "raise"

\* C7: without HTML (absent or empty text), or when neither pattern matches
\* a row, the extraction returns the empty sequence and does not raise.
C7_EmptyInput ==
    ( /\ pc = "done"
      /\ parsed # Idle
      /\ \/ html_text.none
         \/ html_text.text = <<>>
         \/ Pooled(html_text.text) = <<>> )
    => parsed = Return(<<>>)

-----------------------------------------------------------------------------
(* fetch_gold_data_from_sina: the request and the probing of encodings. *)

encodingsUtf8First == <<"utf-8", "gbk", "gb2312", "big5">>

encodings == <<"gbk", "gb2312", "utf-8", "big5">>

\* What response.text gives under an encoding: text in which a marker is
\* found, text without one, or an exception.
DecodeOutcomes == {"marker", "plain", "error"}

Responses ==
    {NoResponse} \cup
    [ok : {TRUE}, decoded : [1..Len(encodings) -> DecodeOutcomes]]

\* The text the response decodes to under encodings[i].
Text(i, outcome) == [encoding |-> encodings[i], marker |-> outcome = "marker"]

\* "黄金" in html_content or "价格" in html_content or "品牌" in html_content
HasMarker(text) == text.marker

InitFetch ==
    /\ pc = "call"
    /\ gold_type \in GoldTypeInputs
    /\ response \in Responses
    /\ encoding_idx = 0
    /\ tried = <<>>
    /\ html_content = None
    /\ fetched = Idle
    /\ ParseIdle
    /\ AnalyzeIdle
    /\ ManagerIdle

\* requests.get and raise_for_status: a failure is caught and None returned.
Request ==
    /\ pc = "call"
    /\ IF response.ok
       THEN /\ pc' = "loop"
            /\ encoding_idx' = 1
            /\ fetched' = fetched
       ELSE /\ pc' = "done"
            /\ encoding_idx' = encoding_idx
            /\ fetched' = Return(None)
    /\ UNCHANGED <<gold_type, response, tried, html_content, parseVars, analyzeVars,
                   managerVars>>

\* One turn of the loop over encodings.
TryEncoding ==
    /\ pc = "loop"
    /\ LET outcome == response.decoded[encoding_idx]
           text    == Text(encoding_idx, outcome)
           break   == outcome # "error" /\ HasMarker(text)
       IN  /\ tried' = Append(tried, encodings[encoding_idx])
           /\ html_content' = IF outcome = "error" THEN html_content ELSE Some(text)
           /\ encoding_idx' = IF break THEN encoding_idx ELSE encoding_idx + 1
           /\ pc' = IF break \/ encoding_idx = Len(encodings)
                    THEN "decoded" ELSE "loop"
    /\ UNCHANGED <<gold_type, response, fetched, parseVars, analyzeVars, managerVars>>

\* After the loop: response.text once more when html_content is None (the
\* encoding is still the last one set, so the read fails as it did and the
\* outer handler returns None); then the return.
ReturnContent ==
    /\ pc = "decoded"
    /\ LET last == response.decoded[Len(encodings)]
       IN  fetched' =
             IF html_content # None THEN Return(html_content)
             ELSE IF last = "error" THEN Return(None)
             ELSE Return(Some(Text(Len(encodings), last)))
    /\ pc' = "done"
    /\ UNCHANGED <<gold_type, response, encoding_idx, tried, html_content,
                   parseVars, analyzeVars, managerVars>>

NextFetch == Request \/ TryEncoding \/ ReturnContent

SpecFetch == InitFetch /\ [][NextFetch]_vars

\* The indices of the encodings whose text holds a marker.
Marked == {i \in 1..Len(encodings) : response.decoded[i] = "marker"}

\* The indices of the encodings that decode at all.
Decodable == {i \in 1..Len(encodings) : response.decoded[i] # "error"}

Least(S) == CHOOSE i \in S : \A j \in S : i <= j

Greatest(S) == CHOOSE i \in S : \A j \in S : j <= i

FixedOrder == <<"gbk", "gb2312", "utf-8", "big5">>

\* The encodings are tried in the order gbk, gb2312, utf-8, big5, and when
\* one gives text with a marker that text is returned and no later encoding
\* is tried.
TriedInOrderFirstMarkerWins ==
    /\ tried = SubSeq(FixedOrder, 1, Len(tried))
    /\ (pc = "done" /\ response.ok /\ Marked # {}) =>
          /\ Len(tried) = Least(Marked)
          /\ fetched = Return(Some([encoding |-> FixedOrder[Least(Marked)],
                                     marker |-> TRUE]))

\* C8 as stated: the encodings are tried in the fixed order and the text of
\* the first one that yields a marker is returned; when none yields a marker,
\* or the request fails, no text is returned.
C8_NoMarkerNoText ==
    /\ TriedInOrderFirstMarkerWins
    /\ (pc = "done" /\ (~response.ok \/ Marked = {})) => fetched = Return(None)

\* C8 amended: as stated when a marker is found or the request fails; when
\* the request succeeds and no encoding yields a marker, all four encodings
\* have been tried and the text of the last encoding that decoded is
\* returned (big5 when it decodes), and no text only when none decoded.
C8_NoMarkerLastText ==
    /\ TriedInOrderFirstMarkerWins
    /\ (pc = "done" /\ ~response.ok) => fetched = Return(None)
    /\ (pc = "done" /\ response.ok /\ Marked = {}) =>
          /\ tried = FixedOrder
          /\ fetched =
                IF Decodable = {} THEN Return(None)
                ELSE Return(Some([encoding |-> FixedOrder[Greatest(Decodable)],
                                  marker |-> FALSE]))

\* C8 happens: the request succeeded, every encoding decoded, none gave a
\* marker, and the big5 text was returned.
C8_Witness ==
    /\ pc = "done"
    /\ response.ok
    /\ \A i \in 1..Len(encodings) : response.decoded[i] = "plain"
    /\ fetched = Return(Some([encoding |-> "big5", marker |-> FALSE]))

-----------------------------------------------------------------------------
(* analyze_gold_data. *)

TopN == 10

PercentDecimals == 1

EmptyDict == <<>>

\* Counter(xs) as the sequence of its (key, count) items in insertion order,
\* which is the order in which the keys first occur in xs.
RECURSIVE CounterNoIncrement(_)
CounterNoIncrement(xs) ==
    IF xs = <<>> THEN <<>>
    ELSE LET rest == CounterNoIncrement(SubSeq(xs, 1, Len(xs) - 1))
             x    == xs[Len(xs)]
         IN  IF \E i \in 1..Len(rest) : rest[i][1] = x THEN rest
             ELSE Append(rest, <<x, 1>>)

RECURSIVE Counter(_)
Counter(xs) ==
    IF xs = <<>> THEN <<>>
    ELSE LET rest == Counter(SubSeq(xs, 1, Len(xs) - 1))
             x    == xs[Len(xs)]
         IN  IF \E i \in 1..Len(rest) : rest[i][1] = x
             THEN [i \in 1..Len(rest) |->
                      IF rest[i][1] = x THEN <<x, rest[i][2] + 1>> ELSE rest[i]]
             ELSE Append(rest, <<x, 1>>)

\* item placed ahead of the items of sorted that have its count.
InsertByCountAheadOfTies(sorted, item) ==
    LET ahead == {i \in 1..Len(sorted) : sorted[i][2] > item[2]}
        k     == IF ahead = {} THEN 0 ELSE CHOOSE i \in ahead : \A j \in ahead : j <= i
    IN  SubSeq(sorted, 1, k) \o <<item>> \o SubSeq(sorted, k + 1, Len(sorted))

\* item placed behind every item of sorted whose count is not smaller.
InsertByCount(sorted, item) ==
    LET ahead == {i \in 1..Len(sorted) : sorted[i][2] >= item[2]}
        k     == IF ahead = {} THEN 0 ELSE CHOOSE i \in ahead : \A j \in ahead : j <= i
    IN  SubSeq(sorted, 1, k) \o <<item>> \o SubSeq(sorted, k + 1, Len(sorted))

\* Counter.most_common(): the items by descending count, in a stable sort.
RECURSIVE most_common(_)
most_common(items) ==
    IF items = <<>> THEN <<>>
    ELSE InsertByCount(most_common(SubSeq(items, 1, Len(items) - 1)),
                       items[Len(items)])

\* Counter.most_common(n)
most_common_n(items, n) ==
    LET all == most_common(items)
    IN  SubSeq(all, 1, IF Len(all) < n THEN Len(all) ELSE n)

InsertAscending(sorted, x) ==
    LET ahead == {i \in 1..Len(sorted) : sorted[i] <= x}
        k     == IF ahead = {} THEN 0 ELSE CHOOSE i \in ahead : \A j \in ahead : j <= i
    IN  SubSeq(sorted, 1, k) \o <<x>> \o SubSeq(sorted, k + 1, Len(sorted))

\* sorted(prices)
RECURSIVE sorted(_)
sorted(xs) ==
    IF xs = <<>> THEN <<>>
    ELSE InsertAscending(sorted(SubSeq(xs, 1, Len(xs) - 1)), xs[Len(xs)])

RECURSIVE sum(_)
sum(xs) == IF xs = <<>> THEN 0 ELSE xs[1] + sum(Tail(xs))

\* The code point order of the characters that occur in the texts.
CodePoint(c) ==
    CASE c = "\t" -> 9 [] c = "\n" -> 10 [] c = " " -> 32 [] c = "+" -> 43
      [] c = "-" -> 45 [] c = "." -> 46 [] c = "/" -> 47
      [] c \in Digits -> 48 + DigitValue(c)
      [] c = "=" -> 61 [] c = "A" -> 65 [] c = "B" -> 66 [] c = "C" -> 67
      [] c = "a" -> 97 [] c = "g" -> 103 [] c = "n" -> 110 [] c = "p" -> 112
      [] c = "q" -> 113 [] c = "x" -> 120

\* a <= b for two str values.
RECURSIVE StrLeq(_, _)
StrLeq(a, b) ==
    IF a = <<>> THEN TRUE
    ELSE IF b = <<>> THEN FALSE
    ELSE IF a[1] # b[1] THEN CodePoint(a[1]) < CodePoint(b[1])
    ELSE StrLeq(Tail(a), Tail(b))

\* min(dates) and max(dates): the first least, the first greatest.
min_str(xs) ==
    xs[CHOOSE i \in 1..Len(xs) :
          /\ \A j \in 1..Len(xs) : StrLeq(xs[i], xs[j])
          /\ \A j \in 1..(i - 1) : xs[j] # xs[i]]

max_str(xs) ==
    xs[CHOOSE i \in 1..Len(xs) :
          /\ \A j \in 1..Len(xs) : StrLeq(xs[j], xs[i])
          /\ \A j \in 1..(i - 1) : xs[j] # xs[i]]

max_int(xs) == xs[CHOOSE i \in 1..Len(xs) : \A j \in 1..Len(xs) : xs[j] <= xs[i]]

min_int(xs) == xs[CHOOSE i \in 1..Len(xs) : \A j \in 1..Len(xs) : xs[i] <= xs[j]]

\* A filter on truthiness, which drops a price value of 0 too.
RECURSIVE PricesTruthy(_)
PricesTruthy(gd) ==
    IF gd = <<>> THEN <<>>
    ELSE (IF gd[1].price_value # None /\ gd[1].price_value[1] # 0
          THEN <<gd[1].price_value[1]>> ELSE <<>>) \o PricesTruthy(Tail(gd))

\* [item["价格_数值"] for item in gold_data if item["价格_数值"] is not None]
RECURSIVE Prices(_)
Prices(gd) ==
    IF gd = <<>> THEN <<>>
    ELSE (IF gd[1].price_value # None THEN <<gd[1].price_value[1]>> ELSE <<>>)
           \o Prices(Tail(gd))

\* sorted(prices)[len(prices) // 2], list indices counted from 0
Median(ps) == sorted(ps)[Len(ps) \div 2 + 1]

\* f"{(v/total_records*100):.1f}%": the percentage in units of
\* 10^-PercentDecimals, rounded to the nearest, a tie to the even one.
Percent(v, total) ==
    LET scaled == v * 100 * Pow10(PercentDecimals)
        q      == scaled \div total
        r2     == 2 * (scaled % total)
    IN  IF r2 > total \/ (r2 = total /\ q % 2 = 1) THEN q + 1 ELSE q

\* The percentages taken of the records that have a trend, not of all.
trend_ratio_of_nonempty(trend_counts, total_records) ==
    LET with_trend == [i \in 1..Len(trend_counts) |->
                          IF trend_counts[i][1] = <<>> THEN 0 ELSE trend_counts[i][2]]
        RECURSIVE Total(_)
        Total(xs) == IF xs = <<>> THEN 0 ELSE xs[1] + Total(Tail(xs))
        denom == IF Total(with_trend) = 0 THEN total_records ELSE Total(with_trend)
    IN  [i \in 1..Len(trend_counts) |->
            <<trend_counts[i][1], Percent(trend_counts[i][2], denom)>>]

\* {k: f"{(v/total_records*100):.1f}%" for k, v in trend_counts.items()}
trend_ratio_of(trend_counts, total_records) ==
    [i \in 1..Len(trend_counts) |->
        <<trend_counts[i][1], Percent(trend_counts[i][2], total_records)>>]

\* The report; the sections and keys are, in the order written:
\* 数据概览 (总记录数, 数据日期范围, 品牌数量, 产品类型数量, 有效价格记录数),
\* 品牌分析 (品牌统计, 主要品牌), 产品分析 (产品类型统计, 热门产品),
\* 价格分析 (最高价, 最低价, 平均价, 中位数, 记录数),
\* 趋势分析 (涨跌统计, 涨跌比例), 日期分析 (日期统计, 数据日期数).
analyze_gold_data(gd) ==
    IF gd = <<>> THEN EmptyDict
    ELSE
    LET total_records  == Len(gd)
        brands         == [i \in 1..Len(gd) |-> gd[i].brand]
        brand_counts   == Counter(brands)
        products       == [i \in 1..Len(gd) |-> gd[i].product]
        product_counts == Counter(products)
        prices         == Prices(gd)
        price_analysis ==
            IF prices = <<>> THEN EmptyDict
            ELSE [max_price |-> max_int(prices),
                  min_price |-> min_int(prices),
                  avg_price |-> [num |-> sum(prices), den |-> Len(prices)],
                  median    |-> Median(prices),
                  count     |-> Len(prices)]
        trends         == [i \in 1..Len(gd) |-> gd[i].trend]
        trend_counts   == Counter(trends)
        dates          == [i \in 1..Len(gd) |-> gd[i].date]
        date_counts    == Counter(dates)
    IN  [overview |->
            [total_records |-> total_records,
             date_range |-> <<min_str(dates), max_str(dates)>>,
             brand_count |-> Len(brand_counts),
             product_count |-> Len(product_counts),
             valid_price_count |-> Len(prices)],
         brand_analysis |->
            [brand_stats |-> most_common(brand_counts),
             top_brands |-> most_common_n(brand_counts, TopN)],
         product_analysis |->
            [product_stats |-> most_common(product_counts),
             top_products |-> most_common_n(product_counts, TopN)],
         price_analysis |-> price_analysis,
         trend_analysis |->
            [trend_stats |-> trend_counts,
             trend_ratio |-> trend_ratio_of(trend_counts, total_records)],
         date_analysis |->
            [date_stats |-> most_common(date_counts),
             date_count |-> Len(date_counts)]]

-----------------------------------------------------------------------------
(* Aggregation: one call of analyze_gold_data on records of the extraction. *)

SampleCells(date, brand, product, price, trend) ==
    <<date, brand, product, price, <<"g">>, <<"9", "9", "9">>, <<"n">>, trend>>

SampleRecords ==
    { Record(Cleaned(c), JEWELRY) : c \in
        { SampleCells(<<"1", "7">>, <<"A">>, <<"p">>,
                      <<"8", "2", "3", ".", "0", "0">>, <<"+">>),
          SampleCells(<<"1", "7">>, <<"B">>, <<"p">>, <<"0">>, <<"+">>),
          SampleCells(<<"1", "8">>, <<"A">>, <<"q">>, <<"n", "/", "a">>, <<"-">>),
          SampleCells(<<"1", "8">>, <<"B">>, <<"q">>, <<"1", "2", ".">>, <<"=">>),
          SampleCells(<<"1", "7">>, <<"C">>, <<"p">>, <<"9", ".", "5">>, <<>>),
          SampleCells(<<"1", "8">>, <<"C">>, <<"q">>,
                      <<"8", "2", "3", ".", "0", "0">>, <<"-">>) } }

Collections == UNION { [1..n -> SampleRecords] : n \in 0..MaxRecords }

InitAnalyze ==
    /\ pc = "call"
    /\ gold_type = JEWELRY
    /\ gold_data \in Collections
    /\ analysis = Idle
    /\ ParseIdle
    /\ FetchIdle
    /\ ManagerIdle

Analyze ==
    /\ pc = "call"
    /\ analysis' = analyze_gold_data(gold_data)
    /\ pc' = "done"
    /\ UNCHANGED <<gold_type, gold_data, parseVars, fetchVars, managerVars>>

NextAnalyze == Analyze

SpecAnalyze == InitAnalyze /\ [][NextAnalyze]_vars

-----------------------------------------------------------------------------
(* Properties of the aggregation. *)

Sections ==
    {"overview", "brand_analysis", "product_analysis", "price_analysis",
     "trend_analysis", "date_analysis"}

\* C5: on an empty collection the report has its overview with a total
\* record count of 0, and every other section in an absent or zeroed state.
C5_EmptyReport ==
    (pc = "done" /\ gold_data = <<>>) =>
      /\ DOMAIN analysis = Sections
      /\ analysis.overview.total_records = 0
      /\ analysis.overview.valid_price_count = 0
      /\ analysis.brand_analysis.brand_stats = <<>>
      /\ analysis.product_analysis.product_stats = <<>>
      /\ analysis.price_analysis = EmptyDict
      /\ analysis.trend_analysis.trend_stats = <<>>
      /\ analysis.date_analysis.date_stats = <<>>

RECURSIVE TotalCount(_)
TotalCount(items) ==
    IF items = <<>> THEN 0 ELSE items[1][2] + TotalCount(Tail(items))

\* C9: for a collection that is not empty, the counts of the brand table and
\* the counts of the product table both add up to the total record count,
\* which is the number of records.
C9_CountsAddUp ==
    (pc = "done" /\ gold_data # <<>>) =>
      /\ analysis.overview.total_records = Len(gold_data)
      /\ TotalCount(analysis.brand_analysis.brand_stats) = Len(gold_data)
      /\ TotalCount(analysis.product_analysis.product_stats) = Len(gold_data)

\* C9 happens: three records of two brands and two products, one of each
\* counted twice.
C9_Witness ==
    /\ pc = "done"
    /\ Len(gold_data) = 3
    /\ Len(analysis.brand_analysis.brand_stats) = 2
    /\ analysis.brand_analysis.brand_stats[1][2] = 2
    /\ Len(analysis.product_analysis.product_stats) = 2

\* C10: the price statistics cover exactly the records with a price value, a
\* value of 0 among them: the count is their number, the maximum and the
\* minimum are their extremes, and the median is the element at index
\* floor(n/2), counted from 0, of their ascending order: at most floor(n/2)
\* of the values lie below it and more than floor(n/2) do not lie above it.
C10_PriceStatistics ==
    (pc = "done" /\ gold_data # <<>>) =>
      LET priced == {i \in 1..Len(gold_data) : gold_data[i].price_value # None}
          value(i) == gold_data[i].price_value[1]
          n == Cardinality(priced)
          st == analysis.price_analysis
      IN  /\ analysis.overview.valid_price_count = n
          /\ n = 0 => st = EmptyDict
          /\ n > 0 =>
                /\ st.count = n
                /\ \E i \in priced : value(i) = st.max_price
                /\ \A i \in priced : value(i) <= st.max_price
                /\ \E i \in priced : value(i) = st.min_price
                /\ \A i \in priced : st.min_price <= value(i)
                /\ \E i \in priced : value(i) = st.median
                /\ Cardinality({i \in priced : value(i) < st.median}) <= n \div 2
                /\ Cardinality({i \in priced : value(i) <= st.median}) > n \div 2

\* C10 happens: four priced records, one priced 0; the minimum is 0 and the
\* median is the upper of the two middle values, 9.5 and 12.
C10_Witness ==
    /\ pc = "done"
    /\ Len(gold_data) = 4
    /\ analysis.price_analysis # EmptyDict
    /\ analysis.price_analysis.count = 4
    /\ analysis.price_analysis.min_price = 0
    /\ analysis.price_analysis.median = 12 * Pow10(FracDigits)
    /\ \E i \in 1..4 : gold_data[i].price_value = Some(95 * Pow10(FracDigits - 1))

\* The number of records of the collection whose trend is t.
TrendCount(t) == Cardinality({i \in 1..Len(gold_data) : gold_data[i].trend = t})

\* C11: the trend distribution has one entry for every distinct trend value,
\* the empty one included, with the number of records of that trend, and the
\* percentage of a trend is that count divided by the total record count
\* times 100, to one decimal place (in tenths: the integer nearest to
\* 1000 * count / total); trends +, +, -, = give 50.0, 25.0 and 25.0.
C11_TrendDistribution ==
    (pc = "done" /\ gold_data # <<>>) =>
      LET stats == analysis.trend_analysis.trend_stats
          ratio == analysis.trend_analysis.trend_ratio
          total == Len(gold_data)
      IN  /\ {stats[i][1] : i \in 1..Len(stats)} =
                {gold_data[i].trend : i \in 1..Len(gold_data)}
          /\ \A i, j \in 1..Len(stats) : i # j => stats[i][1] # stats[j][1]
          /\ \A i \in 1..Len(stats) : stats[i][2] = TrendCount(stats[i][1])
          /\ Len(ratio) = Len(stats)
          /\ \A i \in 1..Len(ratio) :
                /\ ratio[i][1] = stats[i][1]
                /\ 2 * (ratio[i][2] * total - 1000 * TrendCount(ratio[i][1])) <= total
                /\ 2 * (1000 * TrendCount(ratio[i][1]) - ratio[i][2] * total) <= total

\* C11 happens: four records with the trends +, +, -, = give the percentages
\* 50.0, 25.0 and 25.0.
C11_Witness ==
    /\ pc = "done"
    /\ Len(gold_data) = 4
    /\ [i \in 1..4 |-> gold_data[i].trend] = << <<"+">>, <<"+">>, <<"-">>, <<"=">> >>
    /\ analysis.trend_analysis.trend_ratio =
          << << <<"+">>, 500 >>, << <<"-">>, 250 >>, << <<"=">>, 250 >> >>

\* The empty trend is counted: of three records one has no trend; it
\* has an entry of its own, 33.3, and the trend of the other two has 66.7.
C11_EmptyTrendCounted ==
    /\ pc = "done"
    /\ Len(gold_data) = 3
    /\ analysis.trend_analysis.trend_ratio =
          << << <<>>, 333 >>, << <<"+">>, 667 >> >>

\* The index at which the value first occurs in the column.
FirstAt(column, v) ==
    CHOOSE i \in 1..Len(column) :
        column[i] = v /\ \A j \in 1..(i - 1) : column[j] # v

\* table lists every distinct value of column once, with the number of its
\* occurrences, by descending count, equal counts by first occurrence.
IsFrequencyTable(table, column) ==
    /\ {table[i][1] : i \in 1..Len(table)} = {column[i] : i \in 1..Len(column)}
    /\ \A i, j \in 1..Len(table) : i # j => table[i][1] # table[j][1]
    /\ \A i \in 1..Len(table) :
          table[i][2] = Cardinality({k \in 1..Len(column) : column[k] = table[i][1]})
    /\ \A i, j \in 1..Len(table) :
          i < j =>
            \/ table[i][2] > table[j][2]
            \/ /\ table[i][2] = table[j][2]
               /\ FirstAt(column, table[i][1]) < FirstAt(column, table[j][1])

\* C12: the brand table and the product table list every distinct value
\* once with the number of its records, by descending count, and values of
\* equal count in the order of their first occurrence in the collection.
C12_FrequencyTables ==
    (pc = "done" /\ gold_data # <<>>) =>
      /\ IsFrequencyTable(analysis.brand_analysis.brand_stats,
                          [i \in 1..Len(gold_data) |-> gold_data[i].brand])
      /\ IsFrequencyTable(analysis.product_analysis.product_stats,
                          [i \in 1..Len(gold_data) |-> gold_data[i].product])

\* C12 happens: brands B, A, C, C in this order; C, counted twice, leads,
\* and B stays ahead of A, both counted once.
C12_Witness ==
    /\ pc = "done"
    /\ [i \in 1..Len(gold_data) |-> gold_data[i].brand] =
          << <<"B">>, <<"A">>, <<"C">>, <<"C">> >>
    /\ analysis.brand_analysis.brand_stats =
          << << <<"C">>, 2 >>, << <<"B">>, 1 >>, << <<"A">>, 1 >> >>

-----------------------------------------------------------------------------
(* GoldDataManager: fetch_and_save_data and the two reports over the files. *)

\* fetch_gold_data_from_sina as one call: the loop over encodings, a break at
\* the first text holding a marker, otherwise the last text that decoded.
RECURSIVE DecodeLoop(_, _, _)
DecodeLoop(resp, i, content) ==
    IF i > Len(encodings) THEN content
    ELSE LET outcome == resp.decoded[i]
             text    == Text(i, outcome)
         IN  IF outcome = "error" THEN DecodeLoop(resp, i + 1, content)
             ELSE IF HasMarker(text) THEN Some(text)
             ELSE DecodeLoop(resp, i + 1, Some(text))

fetch_gold_data_from_sina(resp) ==
    IF ~resp.ok THEN Return(None)
    ELSE LET content == DecodeLoop(resp, 1, None)
             last    == resp.decoded[Len(encodings)]
         IN  IF content # None THEN Return(content)
             ELSE IF last = "error" THEN Return(None)
             ELSE Return(Some(Text(Len(encodings), last)))

\* except Exception as e: print(...); return False
ExceptionEscapes(outcome) == outcome

Caught(outcome) ==
    IF outcome.kind = "raise" THEN Return(FALSE) ELSE outcome

\* json.dump of the records: None is written as null, a float as a number.
json_dump(gd) ==
    [i \in 1..Len(gd) |->
        [gd[i] EXCEPT !.price_value =
            IF @ = None THEN [null |-> TRUE, number |-> 0]
            ELSE [null |-> FALSE, number |-> @[1]]]]

\* json.load: null is read as None, a number as a float.
json_load(js) ==
    [i \in 1..Len(js) |->
        [js[i] EXCEPT !.price_value =
            IF @.null THEN None ELSE Some(@.number)]]

\* The files _save_data writes, in the order it writes them.
SavedFiles == <<"json", "json_ts", "analysis", "analysis_ts", "xlsx">>

\* The method when the write of file number fail_at raises (0: none does) and
\* when to_excel raises ImportError, which the method itself catches.
_save_data(st, gd, an, t, fail_at, import_error) ==
    LET prefix   == get_config(t).filename_prefix
        raises   == fail_at # 0 /\ ~(fail_at = Len(SavedFiles) /\ import_error)
        done(k)  == ~raises \/ k < fail_at
        files    ==
            [json        |-> IF done(1) THEN Some(json_dump(gd)) ELSE st[prefix].json,
             json_ts     |-> IF done(2) THEN Some(json_dump(gd)) ELSE st[prefix].json_ts,
             analysis    |-> IF done(3) THEN Some(an) ELSE st[prefix].analysis,
             analysis_ts |-> IF done(4) THEN Some(an) ELSE st[prefix].analysis_ts,
             xlsx        |-> IF done(5) /\ ~import_error
                             THEN Some(gd) ELSE st[prefix].xlsx]
    IN  [store   |-> [st EXCEPT ![prefix] = files],
         outcome |-> IF raises THEN Raise("OSError") ELSE Return(None)]

\* load_data: the records of <prefix>_latest.json, None when there is no file.
load_data(st, t) ==
    LET file == st[get_config(t).filename_prefix].json
    IN  IF file = None THEN None ELSE Some(json_load(file[1]))

\* if data: neither None nor an empty list.
HasData(data) == data # None /\ data[1] # <<>>

\* if item.get("价格_数值"): neither None nor zero.
Truthy(v) == v # None /\ v[1] # 0

\* [item.get("价格_数值", 0) for item in data if item.get("价格_数值")]
RECURSIVE truthy_prices(_)
truthy_prices(data) ==
    IF data = <<>> THEN <<>>
    ELSE IF Truthy(Head(data).price_value)
         THEN <<Head(data).price_value[1]>> \o truthy_prices(Tail(data))
         ELSE truthy_prices(Tail(data))

NoData == <<"no data">>

ZeroPrice == [num |-> 0, den |-> 1]

get_all_data_summary(st) ==
    [t \in GoldType |->
        LET config == get_config(t)
            data   == load_data(st, t)
        IN  IF HasData(data)
            THEN LET prices == truthy_prices(data[1])
                 IN  [name        |-> config.name,
                      count       |-> Len(data[1]),
                      latest_date |-> max_str([i \in 1..Len(data[1]) |-> data[1][i].date]),
                      brands      |-> Cardinality({data[1][i].brand : i \in 1..Len(data[1])}),
                      avg_price   |-> IF prices # <<>>
                                      THEN [num |-> sum(prices), den |-> Len(prices)]
                                      ELSE ZeroPrice]
            ELSE [name |-> config.name, count |-> 0, latest_date |-> NoData,
                  brands |-> 0, avg_price |-> ZeroPrice]]

compare_gold_types(st) ==
    LET priced == {t \in GoldType :
                      /\ HasData(load_data(st, t))
                      /\ truthy_prices(load_data(st, t)[1]) # <<>>}
    IN  [t \in priced |->
            LET prices == truthy_prices(load_data(st, t)[1])
            IN  [name      |-> get_config(t).name,
                 max_price |-> max_int(prices),
                 min_price |-> min_int(prices),
                 avg_price |-> [num |-> sum(prices), den |-> Len(prices)],
                 count     |-> Len(prices)]]

\* Rows of the page the manager fetches: the base row, rows whose price reads
\* 0, n/a and 12., a row without a unit, and a div-wrapped row of another day.
ManagerRows ==
    { [k \in 1..NumGroups |-> Cell("td", c[k])] :
        c \in { BaseCells,
                [BaseCells EXCEPT ![4] = <<"0">>],
                [BaseCells EXCEPT ![4] = <<"n", "/", "a">>],
                [BaseCells EXCEPT ![4] = <<"1", "2", ".">>],
                [BaseCells EXCEPT ![5] = <<"\n">>] } } \cup
    { [k \in 1..NumGroups |->
          Cell("tddiv", [BaseCells EXCEPT ![1] = <<"1", "8">>][k])] }

ManagerPages == UNION { [1..n -> ManagerRows] : n \in 0..MaxRows }

\* A request that fails, a response whose first decoding holds a marker, one
\* that decodes without a marker, and one that no encoding decodes.
ManagerResponses ==
    { NoResponse,
      [ok |-> TRUE, decoded |-> [i \in 1..Len(encodings) |->
                                    IF i = 1 THEN "marker" ELSE "plain"]],
      [ok |-> TRUE, decoded |-> [i \in 1..Len(encodings) |-> "plain"]],
      [ok |-> TRUE, decoded |-> [i \in 1..Len(encodings) |-> "error"]] }

InitManager ==
    /\ pc = "call"
    /\ gold_type \in GoldTypeInputs
    /\ rows \in ManagerPages
    /\ response \in ManagerResponses
    /\ html_text = Absent
    /\ parsed = Idle
    /\ encoding_idx = 0
    /\ tried = <<>>
    /\ html_content = None
    /\ fetched = Idle
    /\ AnalyzeIdle
    /\ ManagerIdle

\* html_text = fetch_gold_data_from_sina(...); if not html_text: return False
FetchStep ==
    /\ pc = "call"
    /\ steps' = Append(steps, "fetch")
    /\ fetched' = fetch_gold_data_from_sina(response)
    /\ html_text' = IF fetched'.value = None THEN Absent ELSE Str(Document(rows))
    /\ IF html_text'.none \/ html_text'.text = <<>>
       THEN /\ returned' = Return(FALSE)
            /\ pc' = "done"
       ELSE /\ returned' = returned
            /\ pc' = "fetched"
    /\ UNCHANGED <<gold_type, rows, parsed, response, encoding_idx, tried,
                   html_content, analyzeVars, saved, store, summary, comparison>>

\* gold_data = parse_complete_gold_data(...); if not gold_data: return False
ParseStep ==
    /\ pc = "fetched"
    /\ steps' = Append(steps, "parse")
    /\ parsed' = parse_complete_gold_data(html_text, gold_type)
    /\ IF parsed'.kind = "raise"
       THEN /\ returned' = Caught(parsed')
            /\ gold_data' = gold_data
            /\ pc' = "done"
       ELSE IF parsed'.value = <<>>
       THEN /\ returned' = Return(FALSE)
            /\ gold_data' = gold_data
            /\ pc' = "done"
       ELSE /\ returned' = returned
            /\ gold_data' = parsed'.value
            /\ pc' = "parsed"
    /\ UNCHANGED <<gold_type, rows, html_text, fetchVars, analysis, saved, store,
                   summary, comparison>>

\* analysis = analyze_gold_data(gold_data)
AnalyzeStep ==
    /\ pc = "parsed"
    /\ steps' = Append(steps, "analyze")
    /\ analysis' = analyze_gold_data(gold_data)
    /\ pc' = "analyzed"
    /\ UNCHANGED <<gold_type, gold_data, parseVars, fetchVars, returned, saved,
                   store, summary, comparison>>

\* self._save_data(gold_data, analysis, gold_type); return True
SaveStep ==
    /\ pc = "analyzed"
    /\ steps' = Append(steps, "save")
    /\ \E fail_at \in 0..Len(SavedFiles), import_error \in BOOLEAN :
          LET result == _save_data(store, gold_data, analysis, gold_type,
                                     fail_at, import_error)
          IN  /\ store' = result.store
              /\ saved' = result.outcome
              /\ returned' = IF result.outcome.kind = "raise"
                             THEN Caught(result.outcome) ELSE Return(TRUE)
    /\ pc' = "done"
    /\ UNCHANGED <<gold_type, parseVars, fetchVars, analyzeVars, summary,
                   comparison>>

\* summary = manager.get_all_data_summary()
Summarize ==
    /\ pc = "done"
    /\ summary' = get_all_data_summary(store)
    /\ pc' = "summarized"
    /\ UNCHANGED <<gold_type, parseVars, fetchVars, analyzeVars, steps, returned,
                   saved, store, comparison>>

\* comparison = manager.compare_gold_types()
Compare ==
    /\ pc = "summarized"
    /\ comparison' = compare_gold_types(store)
    /\ pc' = "compared"
    /\ UNCHANGED <<gold_type, parseVars, fetchVars, analyzeVars, steps, returned,
                   saved, store, summary>>

NextManager ==
    FetchStep \/ ParseStep \/ AnalyzeStep \/ SaveStep \/ Summarize \/ Compare

SpecManager == InitManager /\ [][NextManager]_vars

-----------------------------------------------------------------------------
(* Properties of the manager. *)

\* The same outcome as the step machine of the fetch.
FetchAgrees == pc = "done" => fetched = fetch_gold_data_from_sina(response)

StepOrder == <<"fetch", "parse", "analyze", "save">>

IsPrefix(xs, ys) == Len(xs) <= Len(ys) /\ \A i \in 1..Len(xs) : xs[i] = ys[i]

Invoked(step) == \E i \in 1..Len(steps) : steps[i] = step

Finished == pc \in {"done", "summarized", "compared"}

\* C13: in fetch_and_save_data the steps run in the order fetch, parse,
\* analyze, save; _save_data is invoked only after the fetch returned
\* non-empty text and the parse at least one record; True is returned only
\* after _save_data completed; in every other case (the fetch failed, no
\* record, an exception in a step) False is returned and no exception
\* reaches the caller.
C13_FetchAndSave ==
    /\ IsPrefix(steps, StepOrder)
    /\ Invoked("save") =>
          /\ ~html_text.none /\ html_text.text # <<>>
          /\ parsed.kind = "return" /\ parsed.value # <<>>
          /\ gold_data = parsed.value
          /\ analysis = analyze_gold_data(gold_data)
    /\ returned # Idle <=> Finished
    /\ Finished =>
          /\ returned.kind = "return"
          /\ returned.value = (saved = Return(None))
          /\ saved # Idle => Invoked("save")

\* A run that saved every file and returned True.
C13_Witness ==
    /\ pc = "done"
    /\ steps = StepOrder
    /\ returned = Return(TRUE)
    /\ store[get_config(gold_type).filename_prefix].json = Some(json_dump(gold_data))
    /\ store[get_config(gold_type).filename_prefix].xlsx # None

\* A run in which a write of _save_data raised after the records were written.
C13_SaveRaised ==
    /\ pc = "done"
    /\ saved = Raise("OSError")
    /\ returned = Return(FALSE)
    /\ store[get_config(gold_type).filename_prefix].json # None

\* A run in which the parse raised.
C13_ParseRaised ==
    /\ pc = "done"
    /\ steps = <<"fetch", "parse">>
    /\ parsed.kind = "raise"
    /\ returned = Return(FALSE)

\* Two quotients of integers that denote the same number.
SameValue(a, b) == a.num * b.den = b.num * a.den

\* The price figures of the two reports for category t against the price
\* statistics analyze_gold_data computes over the records stored for t.
FiguresAgree(t) ==
    LET stats == analyze_gold_data(load_data(store, t)[1]).price_analysis
    IN  stats # EmptyDict =>
          /\ t \in DOMAIN comparison
          /\ comparison[t].max_price = stats.max_price
          /\ comparison[t].min_price = stats.min_price
          /\ SameValue(comparison[t].avg_price, stats.avg_price)
          /\ comparison[t].count = stats.count
          /\ SameValue(summary[t].avg_price, stats.avg_price)

Stored == {t \in GoldType : HasData(load_data(store, t))}

HoldsZeroPrice(t) ==
    \E i \in 1..Len(load_data(store, t)[1]) :
        load_data(store, t)[1][i].price_value = Some(0)

\* C14: for every stored record collection of a category, the max, min,
\* average price and count of priced records that compare_gold_types and
\* get_all_data_summary report agree with the price statistics
\* analyze_gold_data computes over the same records, also when a record's
\* price_value is 0.
C14_PriceFiguresAgree ==
    pc = "compared" => \A t \in Stored : FiguresAgree(t)

\* The figures agree for the collections in which no price_value is 0.
C14_AgreeWithoutZero ==
    pc = "compared" => \A t \in Stored : ~HoldsZeroPrice(t) => FiguresAgree(t)

\* Both reports were made over a stored collection holding a zero price and
\* a non-zero one.
C14_ZeroPriceStored ==
    /\ pc = "compared"
    /\ \E t \in Stored :
          /\ HoldsZeroPrice(t)
          /\ t \in DOMAIN comparison
          /\ comparison[t].count = 1

====
